---- MODULE Spec2Model ----
(***************************************************************************)
(* State-machine model of ComplexEconomy (complex_economies/model.py): the *)
(* staged update protocol of step(), the thirteen aggregation functions    *)
(* and the exit_and_entry replacement algorithm.                           *)
(*                                                                         *)
(* The scheduler (GroupedActivation) and the firm classes live outside     *)
(* model.py; they are modelled from their documented contract: a stage     *)
(* runs the behaviour hook of every live firm, in schedule order, and then *)
(* the stage's model functions in list order.  A firm's own behaviour is   *)
(* an input: a hook leaves the firm as it is or sets one of the fields the *)
(* model reads to a value of a small set.                                  *)
(*                                                                         *)
(* Decimal scalars are rationals <<numerator, denominator>> with a        *)
(* positive denominator, in lowest terms; every arithmetic operation       *)
(* rounds its result to the decimal context's precision, ties to even.     *)
(***************************************************************************)
EXTENDS Integers, Sequences, FiniteSets, TLC

(* ------------------------------ bounds --------------------------------- *)
\* number of step() calls the driver makes
MaxPeriods == 2
\* number of field changes the firms' own behaviour hooks make over a run
MaxChanges == 2
\* significant digits the decimal context keeps (28 in the program)
prec == 4

(* --------------------------- parameters -------------------------------- *)
n_capital_firms == 2
n_consumption_firms == 3
\* initial conditions handed to __init__
InitMarketWage == 1
InitCpi == 1
InitAvgLabourProd == 1
InitLiquidAssets == 1
InitCapitalStock == 1
InitLabourSupply == 2
\* capital_stock of a capital-sector replacement (Python's None)
None == -1

VARIABLES
    agents,              \* schedule.agents, in insertion order
    market_wage, cpi, delta_cpi, avg_cap_price, average_unit_labour_cost,
    avg_labour_prod, delta_productivity,
    avg_comp_competitiveness, avg_cap_competitiveness,
    expansion_investment, replacement_investment,
    labour_supply, labour_demand, employment, unemployment,
    unemployment_rate, delta_unemployment, consumption,
    agg_production, agg_inventories,
    labour_supply_growth, \* parameters['labour_supply_growth']
    social_policy,       \* parameters['social_policy']
    phase,               \* "idle" | "agents" | "functions" | "collect" | "raised"
    stage,               \* index into stages while a step() runs, else 0
    aidx,                \* position in agents of the next behaviour hook
    fidx,                \* index of the next function of the stage
    period,              \* completed step() calls
    collects,            \* datacollector.collect calls
    err,                 \* exception that left step(), "none" if none
    changes,             \* field changes made by behaviour hooks so far
    trace,               \* aggregation functions started in this period
    hooked,              \* unique_ids whose hook of this stage has completed
    round,               \* replacements of the last exit_and_entry call
    entries              \* schedule.add calls made by exit_and_entry so far

stage_one_scalars == <<cpi, delta_cpi, avg_cap_price, average_unit_labour_cost,
                       avg_labour_prod, delta_productivity,
                       avg_comp_competitiveness, avg_cap_competitiveness>>

stage_two_scalars == <<expansion_investment, replacement_investment>>

stage_three_scalars == <<labour_supply, labour_demand, employment, unemployment,
                         unemployment_rate, delta_unemployment, market_wage,
                         consumption>>

stage_four_scalars == <<agg_production, agg_inventories>>

aggregates == <<stage_one_scalars, stage_two_scalars, stage_three_scalars,
                stage_four_scalars>>

parameters == <<labour_supply_growth, social_policy>>

vars == <<agents, aggregates, parameters, phase, stage, aidx, fidx, period,
          collects, err, changes, trace, hooked, round, entries>>

(* ---------------------------- rationals -------------------------------- *)
Abs(x) == IF x < 0 THEN -x ELSE x

RECURSIVE GCD(_, _)
GCD(a, b) == IF b = 0 THEN a ELSE GCD(b, a % b)

\* n/d in lowest terms, d # 0
Rat(n, d) ==
    LET g == GCD(Abs(n), Abs(d))
        s == IF d < 0 THEN -1 ELSE 1
    IN  <<(s * n) \div g, (s * d) \div g>>

d(x) == <<x, 1>>

RECURSIVE Pow10(_)
Pow10(k) == IF k = 0 THEN 1 ELSE 10 * Pow10(k - 1)

\* m / dn scaled by 10^k, as a fraction with the common factors cancelled
Scaled(m, dn, k) ==
    IF k >= 0
    THEN LET g == GCD(Pow10(k), dn) IN <<m * (Pow10(k) \div g), dn \div g>>
    ELSE LET g == GCD(m, Pow10(-k)) IN <<m \div g, dn * (Pow10(-k) \div g)>>

\* the k for which m / dn * 10^k has exactly prec digits before the point
RECURSIVE Exponent(_, _, _)
Exponent(m, dn, k) ==
    LET s == Scaled(m, dn, k)
        q == s[1] \div s[2]
    IN  IF q >= Pow10(prec) THEN Exponent(m, dn, k - 1)
        ELSE IF q < Pow10(prec - 1) THEN Exponent(m, dn, k + 1)
        ELSE k

\* a Decimal result under the context: prec significant digits, ROUND_HALF_EVEN
Quantize(a) ==
    IF a[1] = 0 THEN <<0, 1>>
    ELSE LET m == Abs(a[1])
             k == Exponent(m, a[2], 0)
             s == Scaled(m, a[2], k)
             q == s[1] \div s[2]
             r == s[1] % s[2]
             up == \/ 2 * r > s[2]
                   \/ 2 * r = s[2] /\ q % 2 = 1
             c == IF up THEN q + 1 ELSE q
             sg == IF a[1] < 0 THEN -1 ELSE 1
         IN  IF k >= 0 THEN Rat(sg * c, Pow10(k)) ELSE <<sg * c * Pow10(-k), 1>>

RatAdd(a, b) == Quantize(Rat(a[1] * b[2] + b[1] * a[2], a[2] * b[2]))
RatSub(a, b) == Quantize(Rat(a[1] * b[2] - b[1] * a[2], a[2] * b[2]))
RatMul(a, b) == Quantize(Rat(a[1] * b[1], a[2] * b[2]))
RatDiv(a, b) == Quantize(Rat(a[1] * b[2], a[2] * b[1]))
RatLeq(a, b) == a[1] * b[2] <= b[1] * a[2]
RatLt(a, b) == a[1] * b[2] < b[1] * a[2]
RatMin(a, b) == IF RatLeq(a, b) THEN a ELSE b
RatMax(a, b) == IF RatLeq(a, b) THEN b ELSE a

\* round(x, 2) of a Decimal: to the nearest hundredth, ties to the even one
RatRound2(a) ==
    LET q == (100 * a[1]) \div a[2]
        r == (100 * a[1]) % a[2]
        up == \/ 2 * r > a[2]
              \/ 2 * r = a[2] /\ q % 2 = 1
    IN  Rat(IF up THEN q + 1 ELSE q, 100)

RECURSIVE SumSeq(_)
SumSeq(s) == IF s = <<>> THEN 0 ELSE Head(s) + SumSeq(Tail(s))

RECURSIVE SumRat(_)
\* sum(s) of Decimals: from the left, each partial sum rounded
SumRat(s) ==
    IF s = <<>> THEN d(0)
    ELSE RatAdd(SumRat(SubSeq(s, 1, Len(s) - 1)), s[Len(s)])

MaxOf(S) == CHOOSE x \in S : \A y \in S : y <= x

(* ----------------------- class-level constants ------------------------- *)
groups == <<"consumption_firm", "capital_firm">>

stages == <<"stage_one", "stage_two", "stage_three", "stage_four", "stage_five">>

\* variant: update_employment listed before aggregate_labour_demand
stage_functions_swapped ==
    <<  <<"update_average_prices", "update_avg_ulc",
          "update_average_labour_productivity", "update_sector_competitiveness">>,
        <<"aggregate_investment">>,
        <<"update_labour_supply", "update_employment", "aggregate_labour_demand",
          "update_market_wage", "update_consumption">>,
        <<"aggregate_production", "aggregate_inventories">>,
        <<"exit_and_entry">> >>

\* variant: update_consumption listed before update_market_wage
stage_functions_consumption_first ==
    <<  <<"update_average_prices", "update_avg_ulc",
          "update_average_labour_productivity", "update_sector_competitiveness">>,
        <<"aggregate_investment">>,
        <<"update_labour_supply", "aggregate_labour_demand", "update_employment",
          "update_consumption", "update_market_wage">>,
        <<"aggregate_production", "aggregate_inventories">>,
        <<"exit_and_entry">> >>

\* variant: update_market_wage listed before update_employment
stage_functions_wage_first ==
    <<  <<"update_average_prices", "update_avg_ulc",
          "update_average_labour_productivity", "update_sector_competitiveness">>,
        <<"aggregate_investment">>,
        <<"update_labour_supply", "aggregate_labour_demand", "update_market_wage",
          "update_employment", "update_consumption">>,
        <<"aggregate_production", "aggregate_inventories">>,
        <<"exit_and_entry">> >>

stage_functions ==
    <<  <<"update_average_prices", "update_avg_ulc",
          "update_average_labour_productivity", "update_sector_competitiveness">>,
        <<"aggregate_investment">>,
        <<"update_labour_supply", "aggregate_labour_demand", "update_employment",
          "update_market_wage", "update_consumption">>,
        <<"aggregate_production", "aggregate_inventories">>,
        <<"exit_and_entry">> >>

(* ------------------------------- firms --------------------------------- *)
\* Fields a firm's constructor sets from its arguments; the other fields
\* start at the firm class's defaults.  lpc, mprice and ulc are the machine's
\* labour_productivity_coefficient, price and compute_unit_labour_cost().
CapitalGoodFirm(unique_id, liquid_assets, market_share) ==
    [unique_id |-> unique_id, group |-> "capital_firm", bankrupt |-> FALSE,
     liquid_assets |-> liquid_assets, market_share |-> market_share,
     capital_stock |-> None, price |-> 1, competitiveness |-> 1,
     expansion_investment |-> 0, replacement_investment |-> 0,
     labour_demand |-> d(0), production |-> 0, inventory |-> 0,
     lpc |-> 1, mprice |-> 1, ulc |-> 1]

ConsumptionGoodFirm(unique_id, liquid_assets, capital_stock, market_share) ==
    [unique_id |-> unique_id, group |-> "consumption_firm", bankrupt |-> FALSE,
     liquid_assets |-> liquid_assets, market_share |-> market_share,
     capital_stock |-> capital_stock, price |-> 1, competitiveness |-> 1,
     expansion_investment |-> 0, replacement_investment |-> 0,
     labour_demand |-> d(0), production |-> 0, inventory |-> 0,
     lpc |-> 0, mprice |-> 0, ulc |-> 0]

\* variant: the two shares in the other order
init_market_share_swapped == <<RatDiv(d(1), d(n_capital_firms)),
                                RatDiv(d(1), d(n_consumption_firms))>>

init_market_share == <<RatDiv(d(1), d(n_consumption_firms)),
                        RatDiv(d(1), d(n_capital_firms))>>

\* variant: the consumption firms are numbered from 0 as well
InitAgentsNumberedPerGroup ==
    [i \in 1..(n_capital_firms + n_consumption_firms) |->
        IF i <= n_capital_firms
        THEN CapitalGoodFirm(i - 1, InitLiquidAssets, init_market_share[2])
        ELSE ConsumptionGoodFirm(i - 1 - n_capital_firms, InitLiquidAssets,
                                 InitCapitalStock, init_market_share[1])]

InitAgents ==
    [i \in 1..(n_capital_firms + n_consumption_firms) |->
        IF i <= n_capital_firms
        THEN CapitalGoodFirm(i - 1, InitLiquidAssets, init_market_share[2])
        ELSE ConsumptionGoodFirm(i - 1, InitLiquidAssets, InitCapitalStock,
                                 init_market_share[1])]

(* ----------------------------- scheduler ------------------------------- *)
\* position of the first live firm at or after position i (Len + 1 if none)
RECURSIVE NextLive(_, _)
NextLive(ags, i) ==
    IF i > Len(ags) THEN Len(ags) + 1
    ELSE IF ~ags[i].bankrupt THEN i
    ELSE NextLive(ags, i + 1)

\* variant: the stage's functions start once its first hook has run
HooksCompleteEarly(ags, i) == TRUE

\* the hook at position i was the stage's last one
HooksComplete(ags, i) == NextLive(ags, i + 1) > Len(ags)

\* the function just run was the stage's last one
FunctionsComplete(fns, i) == i >= Len(fns)

(* ------------------------------- Init ---------------------------------- *)
LabourSupplyGrowths == {d(0), Rat(1, 4)}
SocialPolicies == {"welfare", "benefits"}
wage_share == Rat(1, 2)
\* wage_setting: cpi_weight, avg_lp_weight, unemployment_weight
psi1 == Rat(1, 2)
psi2 == d(1)
psi3 == d(-1)

compute_consumption(wage, employed, unemployed, supply, policy) ==
    LET household_consumption == RatMul(wage, employed)
        government_consumption ==
            IF policy = "welfare"
            THEN RatMul(wage_share, unemployed)
            ELSE RatMul(wage_share, RatMul(wage, supply))
    IN  RatAdd(household_consumption, government_consumption)

Init ==
    /\ agents = InitAgents
    /\ labour_supply_growth \in LabourSupplyGrowths
    /\ social_policy \in SocialPolicies
    /\ market_wage = d(InitMarketWage)
    /\ cpi = d(InitCpi)
    /\ avg_labour_prod = d(InitAvgLabourProd)
    /\ labour_supply = d(InitLabourSupply)
    /\ avg_cap_price = d(0)
    /\ avg_comp_competitiveness = d(0)
    /\ avg_cap_competitiveness = d(0)
    /\ average_unit_labour_cost = d(0)
    /\ labour_demand = d(0)
    /\ unemployment = d(0)
    /\ delta_cpi = d(0)
    /\ delta_productivity = d(0)
    /\ delta_unemployment = d(0)
    /\ expansion_investment = d(0)
    /\ replacement_investment = d(0)
    /\ agg_inventories = d(0)
    /\ agg_production = d(0)
    /\ employment = d(InitLabourSupply)
    /\ consumption = compute_consumption(d(InitMarketWage), d(InitLabourSupply),
                                         d(0), d(InitLabourSupply), social_policy)
    /\ unemployment_rate = RatDiv(d(0), d(InitLabourSupply))
    /\ phase = "idle"
    /\ stage = 0
    /\ aidx = 0
    /\ fidx = 0
    /\ period = 0
    /\ collects = 1
    /\ err = "none"
    /\ changes = 0
    /\ trace = <<>>
    /\ hooked = {}
    /\ round = <<>>
    /\ entries = 0

(* --------------------------- step(), hooks ----------------------------- *)
\* step(): schedule.step() starts stage one
Step ==
    /\ phase = "idle"
    /\ period < MaxPeriods
    /\ stage' = 1
    /\ aidx' = NextLive(agents, 1)
    /\ fidx' = 1
    /\ phase' = IF NextLive(agents, 1) > Len(agents) THEN "functions" ELSE "agents"
    /\ trace' = <<>>
    /\ hooked' = {}
    /\ round' = <<>>
    /\ UNCHANGED <<agents, aggregates, parameters, period, collects, err,
                   changes, entries>>

\* What a firm's own behaviour in a stage may leave in the fields the model
\* reads: the firm unchanged, or one field set anew.
HookOutcomes(st, a) ==
    {a} \cup
    (CASE st = "stage_one" ->
            {[a EXCEPT !.price = 2], [a EXCEPT !.competitiveness = 2]}
            \cup (IF a.group = "capital_firm"
                  THEN {[a EXCEPT !.lpc = 2], [a EXCEPT !.ulc = 2]} ELSE {})
       [] st = "stage_two" ->
            IF a.group = "consumption_firm"
            THEN {[a EXCEPT !.expansion_investment = 1],
                  [a EXCEPT !.replacement_investment = 1]}
            ELSE {}
       [] st = "stage_three" ->
            {[a EXCEPT !.labour_demand = d(1)], [a EXCEPT !.labour_demand = d(2)],
             [a EXCEPT !.labour_demand = Rat(1001, 2000)]}
       [] st = "stage_four" ->
            IF a.group = "consumption_firm"
            THEN {[a EXCEPT !.production = 1], [a EXCEPT !.inventory = 1]}
            ELSE {}
       [] st = "stage_five" ->
            {[a EXCEPT !.market_share = d(0)], [a EXCEPT !.liquid_assets = -1],
             [a EXCEPT !.liquid_assets = 0]}
       [] OTHER -> {})

AgentHook ==
    /\ phase = "agents"
    /\ aidx <= Len(agents)
    /\ \E a2 \in HookOutcomes(stages[stage], agents[aidx]) :
          /\ a2 # agents[aidx] => changes < MaxChanges
          /\ agents' = [agents EXCEPT ![aidx] = a2]
          /\ changes' = IF a2 # agents[aidx] THEN changes + 1 ELSE changes
    /\ hooked' = hooked \cup {agents[aidx].unique_id}
    /\ aidx' = NextLive(agents, aidx + 1)
    /\ phase' = IF HooksComplete(agents, aidx) THEN "functions" ELSE "agents"
    /\ UNCHANGED <<aggregates, parameters, stage, fidx, period, collects, err,
                   trace, round, entries>>

\* the scheduler is about to call the model function `name`
Calls(name) ==
    /\ phase = "functions"
    /\ fidx <= Len(stage_functions[stage])
    /\ stage_functions[stage][fidx] = name

\* the scheduler's bookkeeping once the function `name` has returned;
\* ags is the population the function leaves
Return(name, ags) ==
    /\ trace' = Append(trace, name)
    /\ IF ~FunctionsComplete(stage_functions[stage], fidx)
       THEN /\ fidx' = fidx + 1
            /\ UNCHANGED <<stage, phase, aidx, hooked>>
       ELSE IF stage < Len(stages)
       THEN /\ stage' = stage + 1
            /\ fidx' = 1
            /\ aidx' = NextLive(ags, 1)
            /\ phase' = IF NextLive(ags, 1) > Len(ags) THEN "functions" ELSE "agents"
            /\ hooked' = {}
       ELSE /\ phase' = "collect"
            /\ UNCHANGED <<stage, fidx, aidx, hooked>>
    /\ UNCHANGED <<parameters, period, collects, changes>>

\* an exception leaves the function `name`, and step() with it
Raise(name, exception) ==
    /\ err' = exception
    /\ phase' = "raised"
    /\ trace' = Append(trace, name)
    /\ UNCHANGED <<stage, fidx, aidx, hooked, parameters, period, collects, changes>>

(* ----------------------- aggregation functions ------------------------- *)
\* variant: the bankrupt firms are never filtered out
get_group_unfiltered(ags, group, include_bankrupt) ==
    SelectSeq([i \in 1..Len(ags) |-> i], LAMBDA i : ags[i].group = group)

\* positions, in schedule order, of the firms of a group
get_group(ags, group, include_bankrupt) ==
    SelectSeq([i \in 1..Len(ags) |-> i],
              LAMBDA i : /\ ags[i].group = group
                         /\ (include_bankrupt \/ ~ags[i].bankrupt))

\* sum([f.field for f in firms]): firms are positions in ags
SumOver(ags, firms, field) ==
    SumSeq([k \in 1..Len(firms) |-> ags[firms[k]][field]])

\* compute_average_price(group), unweighted; needs a live firm in the group
compute_average_price(ags, group) ==
    RatDiv(d(SumOver(ags, get_group(ags, group, FALSE), "price")),
           d(Len(get_group(ags, group, FALSE))))

update_average_prices ==
    /\ Calls("update_average_prices")
    /\ IF Len(get_group(agents, "consumption_firm", FALSE)) = 0 \/ cpi = d(0)
       THEN /\ Raise("update_average_prices", "ZeroDivisionError")
            /\ UNCHANGED <<cpi, delta_cpi, avg_cap_price>>
       ELSE /\ delta_cpi' =
                  RatDiv(RatSub(compute_average_price(agents, "consumption_firm"),
                                cpi), cpi)
            /\ cpi' = compute_average_price(agents, "consumption_firm")
            /\ IF Len(get_group(agents, "capital_firm", FALSE)) = 0
               THEN /\ Raise("update_average_prices", "ZeroDivisionError")
                    /\ UNCHANGED avg_cap_price
               ELSE /\ avg_cap_price' = compute_average_price(agents, "capital_firm")
                    /\ Return("update_average_prices", agents)
                    /\ UNCHANGED err
    /\ UNCHANGED <<agents, average_unit_labour_cost, avg_labour_prod,
                   delta_productivity, avg_comp_competitiveness,
                   avg_cap_competitiveness, stage_two_scalars, stage_three_scalars,
                   stage_four_scalars, round, entries>>

AvgUlc(ags) ==
    RatDiv(d(SumOver(ags, get_group(ags, "capital_firm", FALSE), "ulc")),
           d(Len(get_group(ags, "capital_firm", FALSE))))

update_avg_ulc ==
    /\ Calls("update_avg_ulc")
    /\ IF Len(get_group(agents, "capital_firm", FALSE)) = 0
       THEN /\ Raise("update_avg_ulc", "ZeroDivisionError")
            /\ UNCHANGED average_unit_labour_cost
       ELSE /\ average_unit_labour_cost' = AvgUlc(agents)
            /\ Return("update_avg_ulc", agents)
            /\ UNCHANGED err
    /\ UNCHANGED <<agents, cpi, delta_cpi, avg_cap_price, avg_labour_prod,
                   delta_productivity, avg_comp_competitiveness,
                   avg_cap_competitiveness, stage_two_scalars, stage_three_scalars,
                   stage_four_scalars, round, entries>>

AvgLpc(ags) ==
    RatDiv(d(SumOver(ags, get_group(ags, "capital_firm", FALSE), "lpc")),
           d(Len(get_group(ags, "capital_firm", FALSE))))

update_average_labour_productivity ==
    /\ Calls("update_average_labour_productivity")
    /\ IF Len(get_group(agents, "capital_firm", FALSE)) = 0 \/ avg_labour_prod = d(0)
       THEN /\ Raise("update_average_labour_productivity", "ZeroDivisionError")
            /\ UNCHANGED <<avg_labour_prod, delta_productivity>>
       ELSE /\ delta_productivity' =
                  RatDiv(RatSub(AvgLpc(agents), avg_labour_prod), avg_labour_prod)
            /\ avg_labour_prod' = AvgLpc(agents)
            /\ Return("update_average_labour_productivity", agents)
            /\ UNCHANGED err
    /\ UNCHANGED <<agents, cpi, delta_cpi, avg_cap_price, average_unit_labour_cost,
                   avg_comp_competitiveness, avg_cap_competitiveness,
                   stage_two_scalars, stage_three_scalars, stage_four_scalars,
                   round, entries>>

compute_sector_competitiveness(ags, group) ==
    LET firms == get_group(ags, group, FALSE)
    IN  RatRound2(SumRat([k \in 1..Len(firms) |->
                     RatMul(d(ags[firms[k]].competitiveness),
                            ags[firms[k]].market_share)]))

update_sector_competitiveness ==
    /\ Calls("update_sector_competitiveness")
    /\ avg_comp_competitiveness' =
           compute_sector_competitiveness(agents, "consumption_firm")
    /\ avg_cap_competitiveness' =
           compute_sector_competitiveness(agents, "capital_firm")
    /\ Return("update_sector_competitiveness", agents)
    /\ UNCHANGED <<agents, cpi, delta_cpi, avg_cap_price, average_unit_labour_cost,
                   avg_labour_prod, delta_productivity, stage_two_scalars,
                   stage_three_scalars, stage_four_scalars, err, round, entries>>

AggExpansionInvestment(ags) ==
    d(SumOver(ags, get_group(ags, "consumption_firm", FALSE), "expansion_investment"))

AggReplacementInvestment(ags) ==
    d(SumOver(ags, get_group(ags, "consumption_firm", FALSE), "replacement_investment"))

aggregate_investment ==
    /\ Calls("aggregate_investment")
    /\ expansion_investment' = AggExpansionInvestment(agents)
    /\ replacement_investment' = AggReplacementInvestment(agents)
    /\ Return("aggregate_investment", agents)
    /\ UNCHANGED <<agents, stage_one_scalars, stage_three_scalars,
                   stage_four_scalars, err, round, entries>>

\* the property investment
investment == RatAdd(expansion_investment, replacement_investment)

update_labour_supply ==
    /\ Calls("update_labour_supply")
    /\ labour_supply' = RatMul(labour_supply, RatAdd(d(1), labour_supply_growth))
    /\ Return("update_labour_supply", agents)
    /\ UNCHANGED <<agents, stage_one_scalars, stage_two_scalars, labour_demand,
                   employment, unemployment, unemployment_rate, delta_unemployment,
                   market_wage, consumption, stage_four_scalars, err, round, entries>>

\* the firms aggregate_labour_demand iterates: self.schedule.agents
LabourDemandFirms(ags) == [i \in 1..Len(ags) |-> i]

AggLabourDemand(ags) ==
    SumRat([k \in 1..Len(LabourDemandFirms(ags)) |->
               ags[LabourDemandFirms(ags)[k]].labour_demand])

aggregate_labour_demand ==
    /\ Calls("aggregate_labour_demand")
    /\ labour_demand' = AggLabourDemand(agents)
    /\ Return("aggregate_labour_demand", agents)
    /\ UNCHANGED <<agents, stage_one_scalars, stage_two_scalars, labour_supply,
                   employment, unemployment, unemployment_rate, delta_unemployment,
                   market_wage, consumption, stage_four_scalars, err, round, entries>>

\* variant: max for min
NewEmploymentMax(demand, supply) == RatMax(demand, supply)

\* variant: the demand is not capped by the supply
NewEmploymentUncapped(demand, supply) == demand

NewEmployment(demand, supply) == RatMin(demand, supply)

NewUnemployment(supply, employed) == RatMax(d(0), RatSub(supply, employed))

update_employment ==
    /\ Calls("update_employment")
    /\ employment' = NewEmployment(labour_demand, labour_supply)
    /\ unemployment' = NewUnemployment(labour_supply, employment')
    /\ IF labour_supply = d(0)
       THEN /\ Raise("update_employment", "ZeroDivisionError")
            /\ UNCHANGED <<unemployment_rate, delta_unemployment>>
       ELSE /\ unemployment_rate' = RatDiv(unemployment', labour_supply)
            /\ delta_unemployment' = RatSub(unemployment_rate', unemployment_rate)
            /\ Return("update_employment", agents)
            /\ UNCHANGED err
    /\ UNCHANGED <<agents, stage_one_scalars, stage_two_scalars, labour_supply,
                   labour_demand, market_wage, consumption, stage_four_scalars,
                   round, entries>>

NewMarketWage(wage, dcpi, dprod, dunemp) ==
    RatMul(wage, RatAdd(RatAdd(RatAdd(d(1), RatMul(psi1, dcpi)),
                               RatMul(psi2, dprod)),
                        RatMul(psi3, dunemp)))

update_market_wage ==
    /\ Calls("update_market_wage")
    /\ market_wage' = NewMarketWage(market_wage, delta_cpi, delta_productivity,
                                    delta_unemployment)
    /\ Return("update_market_wage", agents)
    /\ UNCHANGED <<agents, stage_one_scalars, stage_two_scalars, labour_supply,
                   labour_demand, employment, unemployment, unemployment_rate,
                   delta_unemployment, consumption, stage_four_scalars, err,
                   round, entries>>

update_consumption ==
    /\ Calls("update_consumption")
    /\ consumption' = compute_consumption(market_wage, employment, unemployment,
                                          labour_supply, social_policy)
    /\ Return("update_consumption", agents)
    /\ UNCHANGED <<agents, stage_one_scalars, stage_two_scalars, labour_supply,
                   labour_demand, employment, unemployment, unemployment_rate,
                   delta_unemployment, market_wage, stage_four_scalars, err,
                   round, entries>>

AggProduction(ags) ==
    d(SumOver(ags, get_group(ags, "consumption_firm", FALSE), "production"))

aggregate_production ==
    /\ Calls("aggregate_production")
    /\ agg_production' = AggProduction(agents)
    /\ Return("aggregate_production", agents)
    /\ UNCHANGED <<agents, stage_one_scalars, stage_two_scalars,
                   stage_three_scalars, agg_inventories, err, round, entries>>

AggInventories(ags) ==
    d(SumOver(ags, get_group(ags, "consumption_firm", FALSE), "inventory"))

aggregate_inventories ==
    /\ Calls("aggregate_inventories")
    /\ agg_inventories' = AggInventories(agents)
    /\ Return("aggregate_inventories", agents)
    /\ UNCHANGED <<agents, stage_one_scalars, stage_two_scalars,
                   stage_three_scalars, agg_production, err, round, entries>>

(* --------------------------- exit_and_entry ---------------------------- *)
\* variant: a firm with no liquid assets left counts as dead
IsDeadAtZero(a) == RatLeq(a.market_share, d(0)) \/ a.liquid_assets <= 0

IsDead(a) == RatLeq(a.market_share, d(0)) \/ a.liquid_assets < 0

dead_firms(ags, group) ==
    SelectSeq(get_group(ags, group, FALSE), LAMBDA i : IsDead(ags[i]))

\* variant: the dead firms are not taken out of the candidates
alive_firms_all(ags, group) == get_group(ags, group, FALSE)

alive_firms(ags, group) ==
    SelectSeq(get_group(ags, group, FALSE),
              LAMBDA i : \A k \in 1..Len(dead_firms(ags, group)) :
                             dead_firms(ags, group)[k] # i)

\* variant: the flag is never set
MarkBankruptForgotten(ags, i) == ags

\* variant: the dead firm's labour demand is cleared with the flag
MarkBankruptAndClear(ags, i) ==
    [ags EXCEPT ![i].bankrupt = TRUE, ![i].labour_demand = d(0)]

MarkBankrupt(ags, i) == [ags EXCEPT ![i].bankrupt = TRUE]

\* variant: the maximum is taken over the live firms only
NextIdLive(ags) ==
    MaxOf({ags[i].unique_id : i \in {j \in 1..Len(ags) : ~ags[j].bankrupt}}) + 1

NextId(ags) == MaxOf({ags[i].unique_id : i \in 1..Len(ags)}) + 1

\* variant: the replacement starts without a market share
NewFirmNoShare(group, next_id, copy_firm) ==
    IF group = "consumption_firm"
    THEN ConsumptionGoodFirm(next_id, copy_firm.liquid_assets,
                             copy_firm.capital_stock, d(0))
    ELSE [CapitalGoodFirm(next_id, copy_firm.liquid_assets, d(0))
             EXCEPT !.lpc = copy_firm.lpc, !.mprice = copy_firm.mprice]

\* the replacement built from the drawn survivor copy_firm
NewFirm(group, next_id, copy_firm) ==
    IF group = "consumption_firm"
    THEN ConsumptionGoodFirm(next_id, copy_firm.liquid_assets,
                             copy_firm.capital_stock, copy_firm.market_share)
    ELSE [CapitalGoodFirm(next_id, copy_firm.liquid_assets, copy_firm.market_share)
             EXCEPT !.lpc = copy_firm.lpc, !.mprice = copy_firm.mprice]

\* schedule.add
ScheduleAdd(ags, f) == Append(ags, f)

\* The loop over dead_firms from its k-th firm on. st is the model so far:
\* the population, the replacements made and the exception raised, if any.
\* draws[k] is the position random.choice picks in alive_firms.
RECURSIVE ReplaceDead(_, _, _, _, _, _)
ReplaceDead(st, group, dead, alive, draws, k) ==
    IF k > Len(dead) THEN st
    ELSE
      LET marked == MarkBankrupt(st.agents, dead[k])
      IN  IF Len(alive) = 0
          THEN [agents |-> marked, round |-> st.round, err |-> "IndexError"]
          ELSE
            LET copy_firm == marked[alive[draws[k]]]
                next_id == NextId(marked)
                new_firm == NewFirm(group, next_id, copy_firm)
                rec == [group |-> group, dead |-> marked[dead[k]].unique_id,
                        copy |-> copy_firm.unique_id, new |-> next_id]
            IN  ReplaceDead([agents |-> ScheduleAdd(marked, new_firm),
                             round |-> Append(st.round, rec), err |-> "none"],
                            group, dead, alive, draws, k + 1)

\* The loop over groups from its g-th group on.
RECURSIVE ForGroups(_, _, _)
ForGroups(st, draws, g) ==
    IF g > Len(groups) \/ st.err # "none" THEN st
    ELSE ForGroups(ReplaceDead(st, groups[g], dead_firms(st.agents, groups[g]),
                               alive_firms(st.agents, groups[g]), draws[g], 1),
                   draws, g + 1)

\* every outcome of the random.choice calls of one round: per group, one
\* position in alive_firms for each dead firm
DrawSets(ags) ==
    [g \in 1..Len(groups) |->
        [1..Len(dead_firms(ags, groups[g])) ->
            1..(IF Len(alive_firms(ags, groups[g])) = 0 THEN 1
                ELSE Len(alive_firms(ags, groups[g])))]]

exit_and_entry ==
    /\ Calls("exit_and_entry")
    /\ \E dc \in DrawSets(agents)[1], dk \in DrawSets(agents)[2] :
          LET r == ForGroups([agents |-> agents, round |-> <<>>, err |-> "none"],
                             <<dc, dk>>, 1)
          IN  /\ agents' = r.agents
              /\ round' = r.round
              /\ entries' = entries + Len(r.round)
              /\ IF r.err = "none"
                 THEN Return("exit_and_entry", r.agents) /\ UNCHANGED err
                 ELSE Raise("exit_and_entry", r.err)
    /\ UNCHANGED aggregates

\* variant: two snapshots are taken after a step
CollectTwice ==
    /\ phase = "collect"
    /\ collects' = collects + 2
    /\ period' = period + 1
    /\ phase' = "idle"
    /\ stage' = 0
    /\ aidx' = 0
    /\ fidx' = 0
    /\ UNCHANGED <<agents, aggregates, parameters, err, changes, trace, hooked,
                   round, entries>>

\* step(): schedule.step() has returned; collect and end the period
Collect ==
    /\ phase = "collect"
    /\ collects' = collects + 1
    /\ period' = period + 1
    /\ phase' = "idle"
    /\ stage' = 0
    /\ aidx' = 0
    /\ fidx' = 0
    /\ UNCHANGED <<agents, aggregates, parameters, err, changes, trace, hooked,
                   round, entries>>

Next ==
    \/ Step
    \/ AgentHook
    \/ update_average_prices
    \/ update_avg_ulc
    \/ update_average_labour_productivity
    \/ update_sector_competitiveness
    \/ aggregate_investment
    \/ update_labour_supply
    \/ aggregate_labour_demand
    \/ update_employment
    \/ update_market_wage
    \/ update_consumption
    \/ aggregate_production
    \/ aggregate_inventories
    \/ exit_and_entry
    \/ Collect

Spec == Init /\ [][Next]_vars

(* ------------------------------ claims --------------------------------- *)
Range(s) == {s[i] : i \in DOMAIN s}

IsPrefix(s, t) == Len(s) <= Len(t) /\ \A i \in 1..Len(s) : s[i] = t[i]

LiveIds(ags) == {ags[i].unique_id : i \in {j \in 1..Len(ags) : ~ags[j].bankrupt}}

\* the thirteen functions in the order of the stage table
FunctionOrder ==
    <<"update_average_prices", "update_avg_ulc",
      "update_average_labour_productivity", "update_sector_competitiveness",
      "aggregate_investment",
      "update_labour_supply", "aggregate_labour_demand", "update_employment",
      "update_market_wage", "update_consumption",
      "aggregate_production", "aggregate_inventories",
      "exit_and_entry">>

\* the stage of each of them
StageOfFunction == <<1, 1, 1, 1, 2, 3, 3, 3, 3, 3, 4, 4, 5>>

\* the number of functions of the stages before each stage
FunctionsBefore == <<0, 4, 5, 10, 12>>

\* C1: in every step() the thirteen aggregation functions run once each, in
\* the fixed order of the stage table, each in its own stage: what has run
\* so far in a period is always an initial part of that order, the next
\* function runs in the stage the table gives it, and a step() that returns
\* has run all thirteen.
C1_FixedOrder ==
    /\ IsPrefix(trace, FunctionOrder)
    /\ phase = "functions" =>
          /\ Len(trace) < Len(FunctionOrder)
          /\ stage = StageOfFunction[Len(trace) + 1]
    /\ (phase = "collect" \/ (phase = "idle" /\ period > 0)) => trace = FunctionOrder

C1_Witness == phase = "collect" /\ period = 1 /\ Len(trace) = 13

\* C2: stage barrier. A model function runs only when every live firm's
\* hook of the stage has completed, and a hook of a stage runs only when
\* all functions of the earlier stages have completed.
C2_StageBarrier ==
    [][/\ Len(trace') > Len(trace) => hooked = LiveIds(agents)
       /\ (hooked' # hooked /\ hooked' # {}) =>
             trace = SubSeq(FunctionOrder, 1, FunctionsBefore[stage])]_vars

C2_Witness ==
    /\ phase = "functions"
    /\ stage = 3
    /\ period = 1
    /\ hooked = LiveIds(agents)
    /\ \E i \in 1..Len(agents) : agents[i].bankrupt

\* C3: from update_employment of a period until update_labour_supply of the
\* next, employment = min(labour_demand, labour_supply) and
\* unemployment = max(0, labour_supply - employment).
C3_Employment ==
    (\/ "update_employment" \in Range(trace)
     \/ period > 0 /\ "update_labour_supply" \notin Range(trace))
    => /\ employment = RatMin(labour_demand, labour_supply)
       /\ unemployment = RatMax(d(0), RatSub(labour_supply, employment))

C3_Witness ==
    /\ "update_employment" \in Range(trace)
    /\ period = 1
    /\ RatLt(labour_supply, labour_demand)
    /\ employment = labour_supply

\* the population without its bankrupt firms
LiveOnly(ags) == SelectSeq(ags, LAMBDA a : ~a.bankrupt)

IdsAt(ags, firms) == [k \in 1..Len(firms) |-> ags[firms[k]].unique_id]

\* the functions that go through get_group: what each is about to compute
\* from the population equals what it computes from the population without
\* its bankrupt firms
GroupFunctionsReadLive ==
    /\ Calls("update_average_prices") =>
          /\ compute_average_price(agents, "consumption_firm")
               = compute_average_price(LiveOnly(agents), "consumption_firm")
          /\ compute_average_price(agents, "capital_firm")
               = compute_average_price(LiveOnly(agents), "capital_firm")
    /\ Calls("update_avg_ulc") => AvgUlc(agents) = AvgUlc(LiveOnly(agents))
    /\ Calls("update_average_labour_productivity") =>
          AvgLpc(agents) = AvgLpc(LiveOnly(agents))
    /\ Calls("update_sector_competitiveness") =>
          \A g \in Range(groups) :
              compute_sector_competitiveness(agents, g)
                = compute_sector_competitiveness(LiveOnly(agents), g)
    /\ Calls("aggregate_investment") =>
          /\ AggExpansionInvestment(agents) = AggExpansionInvestment(LiveOnly(agents))
          /\ AggReplacementInvestment(agents)
               = AggReplacementInvestment(LiveOnly(agents))
    /\ Calls("aggregate_production") =>
          AggProduction(agents) = AggProduction(LiveOnly(agents))
    /\ Calls("aggregate_inventories") =>
          AggInventories(agents) = AggInventories(LiveOnly(agents))
    /\ Calls("exit_and_entry") =>
          \A g \in Range(groups) :
              /\ IdsAt(agents, dead_firms(agents, g))
                   = IdsAt(LiveOnly(agents), dead_firms(LiveOnly(agents), g))
              /\ IdsAt(agents, alive_firms(agents, g))
                   = IdsAt(LiveOnly(agents), alive_firms(LiveOnly(agents), g))

\* C4: every aggregation function reads only live firms; no field of a
\* bankrupt firm contributes to an aggregate: what each function is about to
\* compute from the population equals what it computes from the population
\* without its bankrupt firms, aggregate_labour_demand included.
C4_OnlyLiveFirmsRead ==
    /\ GroupFunctionsReadLive
    /\ Calls("aggregate_labour_demand") =>
          AggLabourDemand(agents) = AggLabourDemand(LiveOnly(agents))

\* the firm with the given unique_id
FirmOf(ags, id) == ags[CHOOSE i \in 1..Len(ags) : ags[i].unique_id = id]

\* C5: bankruptcy is terminal. No step resets a bankrupt flag or drops or
\* renames a bankrupt firm, and the firms an exit_and_entry round takes as
\* dead firm or as survivor to clone were not bankrupt when the round began.
C5_BankruptTerminal ==
    [][/\ \A i \in 1..Len(agents) :
             agents[i].bankrupt =>
                 /\ i <= Len(agents')
                 /\ agents'[i].unique_id = agents[i].unique_id
                 /\ agents'[i].bankrupt
       /\ \A k \in 1..Len(round') :
             round' # round =>
                 /\ ~FirmOf(agents, round'[k].dead).bankrupt
                 /\ ~FirmOf(agents, round'[k].copy).bankrupt]_vars

C5_Witness ==
    /\ phase = "collect"
    /\ period = 1
    /\ Len(round) > 0
    /\ \E i \in 1..Len(agents) :
          /\ agents[i].bankrupt
          /\ IsDead(agents[i])
          /\ \A k \in 1..Len(round) : round[k].dead # agents[i].unique_id

\* C6: bankrupt firms are never removed. The population never shrinks and
\* keeps its firms in place, and between step() calls its size is the
\* initial population plus the replacements made so far, which are as many
\* as the bankrupt firms.
C6_Population ==
    /\ [](phase = "idle" =>
            /\ Len(agents) = n_capital_firms + n_consumption_firms + entries
            /\ entries = Cardinality({i \in 1..Len(agents) : agents[i].bankrupt}))
    /\ [][/\ Len(agents') >= Len(agents)
          /\ \A i \in 1..Len(agents) :
                agents'[i].unique_id = agents[i].unique_id]_vars

C6_Witness ==
    /\ phase = "idle"
    /\ period = 2
    /\ entries = 2
    /\ Len(agents) = n_capital_firms + n_consumption_firms + 2

\* C7: every identifier exit_and_entry allocates is greater than every
\* identifier of the population at that moment: each firm a step adds has a
\* greater identifier than all firms before it in the schedule, the ones
\* added earlier in the same round included.
C7_FreshIds ==
    [][\A i \in (Len(agents) + 1)..Len(agents') :
          \A j \in 1..(i - 1) :
              agents'[j].unique_id < agents'[i].unique_id]_vars

C7_Witness ==
    /\ phase = "collect"
    /\ Len(round) = 2
    /\ round[1].group # round[2].group
    /\ round[2].new = round[1].new + 1

\* the firms of a group that are live and dead at the start of a round,
\* from the definition of a dead firm
DeadAtStart(ags, g) ==
    {i \in 1..Len(ags) :
        /\ ags[i].group = g
        /\ ~ags[i].bankrupt
        /\ (ags[i].market_share[1] <= 0 \/ ags[i].liquid_assets < 0)}

SurvivorsAtStart(ags, g) ==
    {i \in 1..Len(ags) :
        /\ ags[i].group = g
        /\ ~ags[i].bankrupt
        /\ ags[i].market_share[1] > 0
        /\ ags[i].liquid_assets >= 0}

\* C8: in an exit_and_entry round every replacement is one new firm of the
\* dead firm's group whose cloned fields are those of one survivor of that
\* group at the start of the round; a round that returns has replaced each
\* dead firm exactly once.
C8_Replacement ==
    [][Calls("exit_and_entry") =>
         /\ Len(agents') = Len(agents) + Len(round')
         /\ \A k \in 1..Len(round') :
               LET new_firm == agents'[Len(agents) + k]
                   g == new_firm.group
               IN  /\ new_firm.unique_id = round'[k].new
                   /\ ~new_firm.bankrupt
                   /\ \E i \in DeadAtStart(agents, g) :
                         agents[i].unique_id = round'[k].dead
                   /\ \E i \in SurvivorsAtStart(agents, g) :
                         /\ new_firm.liquid_assets = agents[i].liquid_assets
                         /\ new_firm.market_share = agents[i].market_share
                         /\ g = "consumption_firm" =>
                               new_firm.capital_stock = agents[i].capital_stock
                         /\ g = "capital_firm" =>
                               /\ new_firm.lpc = agents[i].lpc
                               /\ new_firm.mprice = agents[i].mprice
         /\ err' = "none" =>
               \A g \in Range(groups) : \A i \in DeadAtStart(agents, g) :
                   Cardinality({k \in 1..Len(round') :
                                   round'[k].dead = agents[i].unique_id}) = 1]_vars

C8_Witness ==
    /\ phase = "collect"
    /\ Len(round) = 1
    /\ round[1].group = "capital_firm"
    /\ agents[Len(agents)].lpc = 2
    /\ agents[Len(agents)].unique_id = round[1].new

\* C9: a group with a dead firm and no survivor makes exit_and_entry raise
\* an error of its own, "no survivors available".
C9_NoSurvivorsError ==
    [][(/\ Calls("exit_and_entry")
        /\ \E g \in Range(groups) :
              DeadAtStart(agents, g) # {} /\ SurvivorsAtStart(agents, g) = {})
       => err' = "NoSurvivorsAvailable"]_vars

\* the aggregate scalars by name
ScalarValue ==
    [cpi |-> cpi, delta_cpi |-> delta_cpi, avg_cap_price |-> avg_cap_price,
     average_unit_labour_cost |-> average_unit_labour_cost,
     avg_labour_prod |-> avg_labour_prod, delta_productivity |-> delta_productivity,
     avg_comp_competitiveness |-> avg_comp_competitiveness,
     avg_cap_competitiveness |-> avg_cap_competitiveness,
     expansion_investment |-> expansion_investment,
     replacement_investment |-> replacement_investment,
     labour_supply |-> labour_supply, labour_demand |-> labour_demand,
     employment |-> employment, unemployment |-> unemployment,
     unemployment_rate |-> unemployment_rate,
     delta_unemployment |-> delta_unemployment, market_wage |-> market_wage,
     consumption |-> consumption, agg_production |-> agg_production,
     agg_inventories |-> agg_inventories]

\* the aggregate scalars each function assigns (self.x = ...)
Writes ==
    [update_average_prices |-> {"delta_cpi", "cpi", "avg_cap_price"},
     update_avg_ulc |-> {"average_unit_labour_cost"},
     update_average_labour_productivity |-> {"delta_productivity", "avg_labour_prod"},
     update_sector_competitiveness |->
         {"avg_comp_competitiveness", "avg_cap_competitiveness"},
     aggregate_investment |-> {"expansion_investment", "replacement_investment"},
     update_labour_supply |-> {"labour_supply"},
     aggregate_labour_demand |-> {"labour_demand"},
     update_employment |->
         {"employment", "unemployment", "unemployment_rate", "delta_unemployment"},
     update_market_wage |-> {"market_wage"},
     update_consumption |-> {"consumption"},
     aggregate_production |-> {"agg_production"},
     aggregate_inventories |-> {"agg_inventories"},
     exit_and_entry |-> {}]

\* the aggregate scalars each function evaluates (... self.x ...)
Reads ==
    [update_average_prices |-> {"cpi"},
     update_avg_ulc |-> {},
     update_average_labour_productivity |-> {"avg_labour_prod"},
     update_sector_competitiveness |-> {},
     aggregate_investment |-> {},
     update_labour_supply |-> {"labour_supply"},
     aggregate_labour_demand |-> {},
     update_employment |->
         {"labour_demand", "labour_supply", "employment", "unemployment",
          "unemployment_rate"},
     update_market_wage |->
         {"market_wage", "delta_cpi", "delta_productivity", "delta_unemployment"},
     update_consumption |->
         {"market_wage", "employment", "unemployment", "labour_supply"},
     aggregate_production |-> {},
     aggregate_inventories |-> {},
     exit_and_entry |-> {}]

\* the functions that assign the scalar x
Producers(x) == {f \in Range(FunctionOrder) : x \in Writes[f]}

\* C11: acyclic stage dependency. Every aggregate scalar a function reads
\* and does not write itself has been written earlier in the same period:
\* when the function is called, every function that writes the scalar has
\* already run in this period, so none of them runs later in it. A function
\* changes no aggregate scalar outside the ones it writes.
C11_AcyclicDependency ==
    /\ [](\A f \in Range(FunctionOrder) :
             Calls(f) =>
                 \A x \in Reads[f] \ Writes[f] :
                     /\ Producers(x) # {}
                     /\ Producers(x) \subseteq Range(trace))
    /\ [][\A x \in DOMAIN ScalarValue :
             ScalarValue'[x] # ScalarValue[x] =>
                 /\ Len(trace') = Len(trace) + 1
                 /\ x \in Writes[trace'[Len(trace')]]]_vars

C11_Witness ==
    /\ Calls("update_consumption")
    /\ period = 1
    /\ delta_cpi # d(0)
    /\ delta_unemployment # d(0)
    /\ {"update_average_prices", "update_average_labour_productivity",
        "update_employment", "update_market_wage"} \subseteq Range(trace)

InOrder(ags, S) == SelectSeq([i \in 1..Len(ags) |-> i], LAMBDA i : i \in S)

\* the sum of the market shares of the firms at the given positions
SharesOf(ags, firms) == [k \in 1..Len(firms) |-> ags[firms[k]].market_share]

ShareSum(ags, firms) == SumRat(SharesOf(ags, firms))

LiveOf(ags, g) == {i \in 1..Len(ags) : ags[i].group = g /\ ~ags[i].bankrupt}

\* the shares a round's replacements of group g cloned, in the order made
ClonedShares(ags, rnd, g) ==
    LET recs == SelectSeq(rnd, LAMBDA r : r.group = g)
    IN  [k \in 1..Len(recs) |-> FirmOf(ags, recs[k].copy).market_share]

\* C13: replacement does not renormalise market shares. After every
\* exit_and_entry round that returns, the sum of the market shares of a
\* group's live firms is the sum of the shares of the round's survivors and
\* of the shares the replacements cloned, and every survivor keeps its own
\* market_share; the sum is not brought back to what it was before the round.
C13_NoRenormalisation ==
    [][(Calls("exit_and_entry") /\ err' = "none") =>
         \A g \in Range(groups) :
             /\ ShareSum(agents', InOrder(agents', LiveOf(agents', g)))
                  = SumRat(SharesOf(agents, InOrder(agents, SurvivorsAtStart(agents, g)))
                           \o ClonedShares(agents, round', g))
             /\ \A i \in SurvivorsAtStart(agents, g) :
                   agents'[i].market_share = agents[i].market_share]_vars

\* the firms of group g that were live when the last round began
LiveBeforeRound(g) ==
    {i \in 1..Len(agents) :
        /\ agents[i].group = g
        /\ \/ \E k \in 1..Len(round) : round[k].dead = agents[i].unique_id
           \/ /\ ~agents[i].bankrupt
              /\ \A k \in 1..Len(round) : round[k].new # agents[i].unique_id}

\* a round with a dead firm has changed the sum of a group's live shares
C13_Witness ==
    /\ phase = "collect"
    /\ \E g \in Range(groups) :
          /\ \E k \in 1..Len(round) : round[k].group = g
          /\ ShareSum(agents, InOrder(agents, LiveOf(agents, g)))
               # ShareSum(agents, InOrder(agents, LiveBeforeRound(g)))

\* C14: data is collected once at initialisation, with all initial firms
\* registered and before the first step(), and once after every step() that
\* returns: after k such calls there have been k + 1 collections, also
\* while the next step() is running; a collection happens only when all
\* thirteen functions of the period, exit_and_entry last, have completed,
\* and it ends the step().
C14_CollectOnce ==
    /\ [](/\ collects = period + 1
          /\ period = 0 => Len(agents) >= n_capital_firms + n_consumption_firms)
    /\ [][collects' # collects =>
             /\ collects' = collects + 1
             /\ trace = FunctionOrder
             /\ phase = "collect"
             /\ phase' = "idle"
             /\ period' = period + 1]_vars

C14_Witness ==
    /\ phase = "idle"
    /\ period = 2
    /\ collects = 3
    /\ trace = FunctionOrder

\* the firms of group g a step marks bankrupt
NewlyBankrupt(ags, ags2, g) ==
    {i \in 1..Len(ags) : ags[i].group = g /\ ~ags[i].bankrupt /\ ags2[i].bankrupt}

\* C15: the firms an exit_and_entry round marks bankrupt in a group are
\* firms of the group that were live when the round began with
\* market_share <= 0 or liquid_assets < 0, and a round that returns marks
\* all of them; a live firm with market_share > 0 and liquid_assets >= 0 is
\* never marked, and nothing but exit_and_entry marks a firm.
C15_DeadFirms ==
    [][\A g \in Range(groups) :
          /\ Calls("exit_and_entry") =>
                /\ NewlyBankrupt(agents, agents', g) \subseteq DeadAtStart(agents, g)
                /\ NewlyBankrupt(agents, agents', g) \cap SurvivorsAtStart(agents, g) = {}
                /\ err' = "none" =>
                      NewlyBankrupt(agents, agents', g) = DeadAtStart(agents, g)
          /\ ~Calls("exit_and_entry") => NewlyBankrupt(agents, agents', g) = {}]_vars

\* a round has marked a firm whose market_share was 0 and has left live a
\* firm of the same group whose liquid_assets are exactly 0
C15_Witness ==
    /\ phase = "collect"
    /\ \E k \in 1..Len(round) :
          /\ FirmOf(agents, round[k].dead).bankrupt
          /\ FirmOf(agents, round[k].dead).market_share = d(0)
          /\ FirmOf(agents, round[k].dead).liquid_assets > 0
          /\ \E i \in LiveBeforeRound(round[k].group) :
                /\ ~agents[i].bankrupt
                /\ agents[i].liquid_assets = 0

\* the state between construction and the first step()
Constructed == period = 0 /\ phase = "idle"

GroupSize(g) == IF g = "capital_firm" THEN n_capital_firms ELSE n_consumption_firms

\* s is 1/n to the precision of the decimal context: within half a unit of
\* the last of prec places
IsShareOf(s, n) == Abs(s[1] * n - s[2]) * 2 * Pow10(prec) <= s[2] * n

\* employment, unemployment and the population right after construction
InitialAggregatesAndFirms ==
    /\ labour_supply = d(InitLabourSupply)
    /\ employment = labour_supply
    /\ unemployment = d(0)
    /\ unemployment_rate = d(0)
    /\ Len(agents) = n_capital_firms + n_consumption_firms
    /\ \A g \in Range(groups) :
          /\ Cardinality({i \in 1..Len(agents) : agents[i].group = g}) = GroupSize(g)
          /\ \A i \in 1..Len(agents) :
                agents[i].group = g =>
                    /\ ~agents[i].bankrupt
                    /\ IsShareOf(agents[i].market_share, GroupSize(g))

\* C16: right after construction employment = labour_supply, unemployment
\* and unemployment_rate are 0, and the population is n_capital_firms
\* capital firms and n_consumption_firms consumption firms, none bankrupt,
\* each with the market share 1/n of its group as the decimal division
\* gives it; a group's shares sum to 1 where that quotient is exact.
C16_InitialState ==
    Constructed =>
        /\ InitialAggregatesAndFirms
        /\ \A g \in Range(groups) : \A i \in LiveOf(agents, g) :
              agents[i].market_share[1] * GroupSize(g) = agents[i].market_share[2]
                  => ShareSum(agents, InOrder(agents, LiveOf(agents, g))) = d(1)

\* the three consumption firms' shares sum to less than 1, the two capital
\* firms' shares to 1
C16_Witness ==
    /\ Constructed
    /\ RatLt(ShareSum(agents, InOrder(agents, LiveOf(agents, "consumption_firm"))), d(1))
    /\ ShareSum(agents, InOrder(agents, LiveOf(agents, "capital_firm"))) = d(1)

\* C16 as stated: the same, with the shares of each group summing to 1.
C16_SharesSumToOne ==
    Constructed =>
        /\ InitialAggregatesAndFirms
        /\ \A g \in Range(groups) :
              ShareSum(agents, InOrder(agents, LiveOf(agents, g))) = d(1)

\* the firms of group g a step adds, live
NewLive(ags, ags2, g) ==
    {i \in (Len(ags) + 1)..Len(ags2) : ags2[i].group = g /\ ~ags2[i].bankrupt}

\* C17: as long as exit_and_entry has not raised, each group has as many
\* live firms as at initialisation, and every round that returns adds to a
\* group as many live firms as it marks bankrupt in it.
C17_LiveCount ==
    /\ [](phase # "raised" =>
            \A g \in Range(groups) : Cardinality(LiveOf(agents, g)) = GroupSize(g))
    /\ [][(Calls("exit_and_entry") /\ err' = "none") =>
             \A g \in Range(groups) :
                 Cardinality(NewLive(agents, agents', g))
                   = Cardinality(NewlyBankrupt(agents, agents', g))]_vars

C17_Witness ==
    /\ phase = "idle"
    /\ period = 2
    /\ \A g \in Range(groups) :
          /\ \E i \in 1..Len(agents) : agents[i].group = g /\ agents[i].bankrupt
          /\ Cardinality(LiveOf(agents, g)) = GroupSize(g)

\* update_employment has run and the labour supply has not moved since
AfterUpdateEmployment ==
    \/ "update_employment" \in Range(trace)
    \/ period > 0 /\ "update_labour_supply" \notin Range(trace)

\* a - b without rounding
ExactSub(a, b) == Rat(a[1] * b[2] - b[1] * a[2], a[2] * b[2])

\* C18: after update_employment, 0 <= unemployment and
\* employment <= labour_supply, whether labour_demand is below, equal to or
\* above labour_supply, and employment + unemployment = labour_supply
\* whenever the difference labour_supply - employment is a number the
\* decimal context represents exactly.
C18_LabourAccounting ==
    AfterUpdateEmployment =>
        /\ RatLeq(d(0), unemployment)
        /\ RatLeq(employment, labour_supply)
        /\ RatSub(labour_supply, employment) = ExactSub(labour_supply, employment)
              => RatAdd(employment, unemployment) = labour_supply

C18_Witness ==
    /\ "update_employment" \in Range(trace)
    /\ period = 1
    /\ RatLt(d(0), labour_demand)
    /\ RatLt(labour_demand, labour_supply)
    /\ labour_supply # d(InitLabourSupply)
    /\ RatSub(labour_supply, employment) = ExactSub(labour_supply, employment)
    /\ RatAdd(employment, unemployment) = labour_supply

\* C18 as stated: employment + unemployment = labour_supply in every case.
C18_SumIsSupply ==
    AfterUpdateEmployment =>
        /\ RatLeq(d(0), unemployment)
        /\ RatLeq(employment, labour_supply)
        /\ RatAdd(employment, unemployment) = labour_supply

\* C19: no two agents, bankrupt ones included, have the same identifier.
\* The first n_capital_firms agents are the initial capital firms, numbered
\* from 0, the next n_consumption_firms the initial consumption firms,
\* numbered on from n_capital_firms, and an identifier exit_and_entry
\* allocates is the identifier of no agent already there.
C19_DistinctIds ==
    /\ [](/\ \A i, j \in 1..Len(agents) :
                i # j => agents[i].unique_id # agents[j].unique_id
          /\ \A i \in 1..(n_capital_firms + n_consumption_firms) :
                /\ agents[i].unique_id = i - 1
                /\ agents[i].group = IF i <= n_capital_firms THEN "capital_firm"
                                                              ELSE "consumption_firm")
    /\ [][\A i \in (Len(agents) + 1)..Len(agents') :
             \A j \in 1..(i - 1) : agents'[j].unique_id # agents'[i].unique_id]_vars

\* firms of both groups have died in the same round
C19_Witness ==
    /\ phase = "collect"
    /\ Len(round) = 2
    /\ round[1].group = "consumption_firm"
    /\ round[2].group = "capital_firm"
    /\ Cardinality({agents[i].unique_id : i \in 1..Len(agents)})
          = n_capital_firms + n_consumption_firms + 2

\* C20: exit_and_entry changes nothing but the bankrupt flag of firms that
\* were dead when the round began and the population, to which it only
\* adds: every aggregate scalar, the investment total and the parameters
\* keep their values, every surviving and every already bankrupt firm keeps
\* all its fields, and a dead firm keeps all its fields but the flag.
C20_ExitEntryFrame ==
    [][Calls("exit_and_entry") =>
         /\ ScalarValue' = ScalarValue
         /\ RatAdd(expansion_investment', replacement_investment') = investment
         /\ parameters' = parameters
         /\ Len(agents') >= Len(agents)
         /\ \A i \in 1..Len(agents) :
               \/ agents'[i] = agents[i]
               \/ /\ i \in DeadAtStart(agents, agents[i].group)
                  /\ agents'[i] = [agents[i] EXCEPT !.bankrupt = TRUE]]_vars

\* a round has marked a firm that still has its negative liquid assets and
\* its labour demand, and the aggregate labour demand of stage three stands
C20_Witness ==
    /\ phase = "collect"
    /\ \E k \in 1..Len(round) :
          /\ FirmOf(agents, round[k].dead).bankrupt
          /\ FirmOf(agents, round[k].dead).liquid_assets = -1
          /\ FirmOf(agents, round[k].dead).labour_demand # d(0)
          /\ labour_demand = FirmOf(agents, round[k].dead).labour_demand

====
